---- MODULE Spec2Model ----
(***************************************************************************)
(* A model of the CamblissNews client: the premium status hook             *)
(* (usePremium), the podcast mini player (MiniPlayer, driven by            *)
(* PodcastsPage) and the article submission modal (AddNewsModal).          *)
(*                                                                         *)
(* React is modelled at the level of committed renders: an action is one   *)
(* event handler together with the re-render and the effects it causes.    *)
(* A function that a handler or an effect closes over keeps the values of  *)
(* the render that created it; where the code registers such a function   *)
(* once and keeps it (the audio listeners), the captured values are part   *)
(* of the state.                                                           *)
(***************************************************************************)
EXTENDS Integers, Sequences, FiniteSets, TLC

VARIABLES
    \* ---- usePremium ----
    subscriptionIsPremium,  \* useSubscription().isPremium
    localFlag,              \* localStorage item 'isPremium'
    isPremium,              \* the hook's state
    hookMounted,            \* the hook's first effect has run
    effectSub,              \* subscriptionIsPremium captured by the effect's closures
    storagePending,         \* the number of 'storage' events queued for this window
    \* ---- PodcastsPage / MiniPlayer ----
    episode,                \* PodcastsPage.currentEpisode = MiniPlayer's prop
    isPlaying,
    currentTime,
    showUpgradePrompt,
    audio,                  \* audioRef.current, the one HTMLAudioElement
    listeners,              \* the timeupdate/ended listeners on the audio element
    cleanup,                \* what the pending effect cleanup will remove
    lastOp,                 \* history: the player operation that acted last
    \* ---- AddNewsModal and its collaborators ----
    isOpen,                 \* the modal's prop, owned by the parent
    formData,
    isSubmitting,
    error,
    success,
    user,                   \* useAuth().user, NoUser when signed out
    persistedUser,          \* localStorage item 'cambliss-user'
    configured,             \* VITE_SUPABASE_URL and VITE_SUPABASE_ANON_KEY are set
    inFlight,               \* the create-requests awaiting their responses
    timers,                 \* pending setTimeout completions
    requestsSent,           \* history: create-requests sent
    acked,                  \* history: create-requests the backend acknowledged
    pointsAwarded,          \* history: total passed to addCamblissPoints
    lastSubmit,             \* history: how the last submit or response ended
    onSuccessCalls,         \* history: calls of the onSuccess prop
    ackCloses,              \* history: handleClose runs for the latest acknowledged submission
    \* ---- the user_articles table behind its row-level policies ----
    rows,                   \* row id -> the row, NoRow where there is none
    lastAccess,             \* history: the last statement and what became of it
    \* ---- the text helpers of handleSubmit, applied to one input ----
    textIn,                 \* the input string
    applied,                \* which helper has been applied to it
    readTime,               \* what calculateReadTime returned, 0 before it ran
    tagList                 \* what the tag parsing returned

premiumVars == <<subscriptionIsPremium, localFlag, isPremium, hookMounted,
                 effectSub, storagePending>>
playerVars == <<episode, isPlaying, currentTime, showUpgradePrompt, audio,
                listeners, cleanup, lastOp>>
modalVars == <<isOpen, formData, isSubmitting, error, success, user, persistedUser,
               configured, inFlight, timers, requestsSent, acked, pointsAwarded,
               lastSubmit, onSuccessCalls, ackCloses>>
rlsVars == <<rows, lastAccess>>
textVars == <<textIn, applied, readTime, tagList>>
vars == <<premiumVars, playerVars, modalVars, rlsVars, textVars>>

(***************************************************************************)
(* usePremium                                                              *)
(***************************************************************************)

\* create-requests the model lets one run send
MaxRequests == 2

\* storage events the model lets wait in the window's task queue
MaxStorageEvents == 2

\* localStorage.getItem returns null for a missing item
NoFlag == "<null>"
FlagValues == {NoFlag, "true", "false", "TRUE", "1"}

\* a truthiness test in place of the comparison with 'true'
localPremiumTruthy(flag) == flag # NoFlag

\* localStorage.getItem('isPremium') === 'true'
localPremium(flag) == flag = "true"

\* checkPremium, as created by an effect run that captured `sub`
checkPremium(sub, flag) == sub \/ localPremium(flag)

\* first effect run: checkPremium(), then the two window listeners
MountPremium ==
    /\ ~hookMounted
    /\ hookMounted' = TRUE
    /\ effectSub' = subscriptionIsPremium
    /\ isPremium' = checkPremium(subscriptionIsPremium, localFlag)
    /\ UNCHANGED <<subscriptionIsPremium, localFlag, storagePending>>

\* the subscription context publishes a new value: the hook re-renders, and
\* its effect (dependency [subscriptionIsPremium]) is scheduled
SubscriptionChanged ==
    /\ hookMounted
    /\ effectSub = subscriptionIsPremium
    /\ subscriptionIsPremium' = ~subscriptionIsPremium
    /\ UNCHANGED <<localFlag, isPremium, hookMounted, effectSub, storagePending>>

\* the scheduled effect: cleanup of the old listeners, checkPremium(), new listeners
RunPremiumEffect ==
    /\ hookMounted
    /\ effectSub # subscriptionIsPremium
    /\ effectSub' = subscriptionIsPremium
    /\ isPremium' = checkPremium(subscriptionIsPremium, localFlag)
    /\ UNCHANGED <<subscriptionIsPremium, localFlag, hookMounted, storagePending>>

\* another tab writes or removes the item: the browser queues a storage event
StorageWriteOtherTab(v) ==
    /\ v # localFlag
    /\ storagePending < MaxStorageEvents
    /\ localFlag' = v
    /\ storagePending' = storagePending + 1
    /\ UNCHANGED <<subscriptionIsPremium, isPremium, hookMounted, effectSub>>

\* the queued storage event reaches handleStorageChange, if it is registered
DeliverStorage ==
    /\ storagePending > 0
    /\ storagePending' = storagePending - 1
    /\ isPremium' = IF hookMounted THEN checkPremium(effectSub, localFlag)
                                   ELSE isPremium
    /\ UNCHANGED <<subscriptionIsPremium, localFlag, hookMounted, effectSub>>

\* this window writes the item and dispatches 'premiumStatusChanged'
\* (dispatchEvent runs the registered checkPremium synchronously)
LocalWriteAndNotify(v) ==
    /\ localFlag' = v
    /\ isPremium' = IF hookMounted THEN checkPremium(effectSub, v) ELSE isPremium
    /\ UNCHANGED <<subscriptionIsPremium, hookMounted, effectSub, storagePending>>

(***************************************************************************)
(* PodcastsPage and MiniPlayer                                             *)
(***************************************************************************)

FREE_LIMIT == 60
BaseDuration == 754
\* the episodes of the page: ids 1..NumEpisodes (at most articles.slice(0, 6))
NumEpisodes == 2
\* values of Math.floor(Math.random() * 600) the model draws
RandomOffsets == {0, 598}
Durations == {BaseDuration + r : r \in RandomOffsets}
Episodes == [id : 1..NumEpisodes, duration : Durations]
NoEpisode == [id |-> 0, duration |-> 0]

\* the click position on the progress bar, x / rect.width, in percent
SeekPercents == {0, 50, 100}

\* new Audio(): no source, paused, at position 0
NewAudio == [created |-> TRUE, src |-> 0, duration |-> 0, paused |-> TRUE, time |-> 0]
NoAudio == [created |-> FALSE, src |-> 0, duration |-> 0, paused |-> TRUE, time |-> 0]

\* audio.pause()
AudioPause(a) == [a EXCEPT !.paused = TRUE]
\* audio.currentTime = t
AudioSetTime(a, t) == [a EXCEPT !.time = t]
\* audio.src = url: the element loads the new resource, paused, from position 0
AudioLoad(a, ep) ==
    [a EXCEPT !.src = ep.id, !.duration = ep.duration, !.paused = TRUE, !.time = 0]
\* audio.play(): an element whose playback has ended starts over
AudioPlay(a) ==
    [a EXCEPT !.paused = FALSE,
              !.time = IF a.src # 0 /\ a.time >= a.duration THEN 0 ELSE @]

\* The positions at which the model observes a playing element. Playback is
\* continuous; every comparison the code makes is against FREE_LIMIT or the
\* end, and every seek target is in the set, so the positions between two
\* neighbours are indistinguishable to the code. A 'timeupdate' is taken to
\* arrive exactly at each of them; the fraction of a second by which a real
\* event may trail the position is left out.
PlayPoints(dur) ==
    {0, FREE_LIMIT \div 2, FREE_LIMIT - 1, FREE_LIMIT, FREE_LIMIT + 1,
     dur \div 2, dur - 1, dur}
NextPoint(t, dur) ==
    LET later == {p \in PlayPoints(dur) : p > t}
    IN  CHOOSE p \in later : \A q \in later : p <= q

\* the component's state and its audio element, as one value
PlayerState ==
    [isPlaying |-> isPlaying, currentTime |-> currentTime,
     showUpgradePrompt |-> showUpgradePrompt, audio |-> audio]
Commit(s) ==
    /\ isPlaying' = s.isPlaying
    /\ currentTime' = s.currentTime
    /\ showUpgradePrompt' = s.showUpgradePrompt
    /\ audio' = s.audio

\* handleTimeUpdate, as created by a render in which isPremium was `premium`
handleTimeUpdate(s, premium) ==
    IF ~s.audio.created THEN s
    ELSE LET time == s.audio.time
             t == [s EXCEPT !.currentTime = time]
         IN  IF ~premium /\ time >= FREE_LIMIT
             THEN [t EXCEPT !.audio = AudioPause(@), !.isPlaying = FALSE,
                            !.showUpgradePrompt = TRUE]
             ELSE t

\* handleEnded
handleEnded(s) == [s EXCEPT !.isPlaying = FALSE, !.currentTime = 0]

\* the element fires 'timeupdate' / 'ended': only registered listeners run
DispatchTimeUpdate(s, ls) ==
    IF ls.attached THEN handleTimeUpdate(s, ls.isPremium) ELSE s
\* playback reaching the end pauses the element and fires 'ended'
DispatchEnded(s, ls) ==
    LET e == [s EXCEPT !.audio = AudioPause(@)]
    IN  IF ls.attached THEN handleEnded(e) ELSE e
AtEnd(a) == a.src # 0 /\ a.time >= a.duration

NoListeners == [attached |-> FALSE, isPremium |-> FALSE]

\* the cleanup returned by the previous run of the [episode] effect:
\* removeEventListener with the handler functions of the render of that run
RunCleanup(ls) == IF cleanup = "registered" THEN NoListeners ELSE ls

\* the null branch without its setShowUpgradePrompt(false)
EffectNoEpisodeKeepsPrompt(s) ==
    [s EXCEPT !.isPlaying = FALSE, !.currentTime = 0,
              !.audio = IF @.created THEN AudioSetTime(AudioPause(@), 0) ELSE @]

\* the [episode] effect, branch episode = null
EffectNoEpisode(s) ==
    [s EXCEPT !.isPlaying = FALSE, !.currentTime = 0, !.showUpgradePrompt = FALSE,
              !.audio = IF @.created THEN AudioSetTime(AudioPause(@), 0) ELSE @]

\* the [episode] effect, branch episode # null, after the element exists
EffectEpisode(s, ep) ==
    [s EXCEPT !.audio = AudioPlay(AudioLoad(@, ep)), !.isPlaying = TRUE]

\* listener registration of the effect: only when it creates the element
EffectListeners(ls) ==
    IF ~audio.created THEN [attached |-> TRUE, isPremium |-> isPremium] ELSE ls
EffectCleanup == IF ~audio.created THEN "registered" ELSE "unregistered"

\* handlePlayEpisode(ep): setCurrentEpisode, re-render, cleanup, effect
PlayEpisode(ep) ==
    /\ episode' = ep
    /\ listeners' = EffectListeners(RunCleanup(listeners))
    /\ cleanup' = EffectCleanup
    /\ Commit(EffectEpisode(
           [PlayerState EXCEPT !.audio = IF @.created THEN @ ELSE NewAudio], ep))
    /\ lastOp' = IF episode = NoEpisode THEN "select" ELSE "supersede"
    /\ UNCHANGED <<premiumVars, modalVars, rlsVars, textVars>>

\* handleClosePlayer
handleClosePlayer(s) ==
    [s EXCEPT !.audio = IF @.created THEN AudioSetTime(AudioPause(@), 0) ELSE @]

\* the close button: handleClosePlayer, onClose = setCurrentEpisode(null),
\* re-render, cleanup, effect
ClosePlayer ==
    /\ episode # NoEpisode
    /\ episode' = NoEpisode
    /\ listeners' = RunCleanup(listeners)
    /\ cleanup' = "none"
    /\ Commit(EffectNoEpisode(handleClosePlayer(PlayerState)))
    /\ lastOp' = "close"
    /\ UNCHANGED <<premiumVars, modalVars, rlsVars, textVars>>

\* togglePlayPause, in the current render
togglePlayPause(s) ==
    IF ~s.audio.created \/ episode = NoEpisode THEN s
    ELSE IF ~isPremium /\ s.currentTime >= FREE_LIMIT
         THEN [s EXCEPT !.showUpgradePrompt = TRUE]
         ELSE IF s.isPlaying
              THEN [s EXCEPT !.audio = AudioPause(@), !.isPlaying = FALSE]
              ELSE [s EXCEPT !.audio = AudioPlay(@), !.isPlaying = TRUE]

Toggle ==
    /\ Commit(togglePlayPause(PlayerState))
    /\ lastOp' = "toggle"
    /\ UNCHANGED <<episode, listeners, cleanup, premiumVars, modalVars, rlsVars, textVars>>

\* the seek range not clamped to the preview limit
SeekTargetFullDuration(pct, premium, dur) == (pct * dur) \div 100

\* percentage * (isPremium ? episode.duration : FREE_LIMIT)
SeekTarget(pct, premium, dur) == (pct * (IF premium THEN dur ELSE FREE_LIMIT)) \div 100

\* whether handleProgressClick returns early
SeekRejected(s) ==
    \/ ~s.audio.created
    \/ episode = NoEpisode
    \/ ~isPremium /\ s.currentTime >= FREE_LIMIT

\* handleProgressClick, in the current render
handleProgressClick(s, pct) ==
    IF SeekRejected(s) THEN s
    ELSE LET newTime == SeekTarget(pct, isPremium, episode.duration)
         IN  [s EXCEPT !.audio = AudioSetTime(@, newTime), !.currentTime = newTime]

\* a click on the progress bar; an accepted seek makes the element fire
\* 'timeupdate', and 'ended' when a playing element is moved to its end
Seek(pct) ==
    /\ LET s == handleProgressClick(PlayerState, pct)
           u == IF SeekRejected(PlayerState) THEN s ELSE DispatchTimeUpdate(s, listeners)
       IN  Commit(IF ~SeekRejected(PlayerState) /\ ~u.audio.paused /\ AtEnd(u.audio)
                  THEN DispatchEnded(u, listeners) ELSE u)
    /\ lastOp' = IF SeekRejected(PlayerState) THEN "seekRejected" ELSE "seek"
    /\ UNCHANGED <<episode, listeners, cleanup, premiumVars, modalVars, rlsVars, textVars>>

\* the element plays on to the next observed position and fires 'timeupdate',
\* then 'ended' if that position is the end
Tick ==
    /\ audio.created /\ audio.src # 0 /\ ~audio.paused
    /\ audio.time < audio.duration
    /\ LET s == [PlayerState EXCEPT
                    !.audio = AudioSetTime(@, NextPoint(@.time, @.duration))]
           u == DispatchTimeUpdate(s, listeners)
       IN  Commit(IF ~u.audio.paused /\ AtEnd(u.audio)
                  THEN DispatchEnded(u, listeners) ELSE u)
    /\ lastOp' = "tick"
    /\ UNCHANGED <<episode, listeners, cleanup, premiumVars, modalVars, rlsVars, textVars>>

(***************************************************************************)
(* AddNewsModal                                                            *)
(*                                                                         *)
(* A string is a sequence of one-character strings.                        *)
(***************************************************************************)

Rep(c, n) == [i \in 1..n |-> c]

IsSpace(c) == c \in {" ", "\t", "\n"}

RECURSIVE TrimStart(_)
TrimStart(str) ==
    IF str # <<>> /\ IsSpace(Head(str)) THEN TrimStart(Tail(str)) ELSE str
RECURSIVE TrimEnd(_)
TrimEnd(str) ==
    IF str # <<>> /\ IsSpace(str[Len(str)])
    THEN TrimEnd(SubSeq(str, 1, Len(str) - 1)) ELSE str
\* String.prototype.trim
Trim(str) == TrimEnd(TrimStart(str))

\* the letters the modelled inputs use, folded as the regex flag i folds them
Lower(c) ==
    CASE c = "H" -> "h" [] c = "T" -> "t" [] c = "P" -> "p" [] c = "S" -> "s"
      [] c = "J" -> "j" [] c = "G" -> "g" [] c = "N" -> "n" [] c = "E" -> "e"
      [] c = "I" -> "i" [] c = "F" -> "f" [] c = "W" -> "w" [] c = "B" -> "b"
      [] OTHER -> c

\* whether the word w (lower case) stands at position i of str, case folded
WordAt(str, i, w) ==
    /\ i >= 1 /\ i + Len(w) - 1 <= Len(str)
    /\ \A k \in 1..Len(w) : Lower(str[i + k - 1]) = w[k]

ImageExtensions ==
    {<<"j","p","g">>, <<"j","p","e","g">>, <<"p","n","g">>, <<"g","i","f">>,
     <<"w","e","b","p">>}

\* /^https?:\/\/.+\.(jpg|jpeg|png|gif|webp)/i : `from` is where .+ starts
MatchesAfterScheme(str, from) ==
    \E dot \in (from + 1)..Len(str) :
        /\ str[dot] = "."
        /\ \A k \in from..(dot - 1) : str[k] # "\n"
        /\ \E ext \in ImageExtensions : WordAt(str, dot + 1, ext)
MatchImageUrl(str) ==
    \/ WordAt(str, 1, <<"h","t","t","p",":","/","/">>) /\ MatchesAfterScheme(str, 8)
    \/ WordAt(str, 1, <<"h","t","t","p","s",":","/","/">>) /\ MatchesAfterScheme(str, 9)

MIN_TITLE == 10
MIN_SUMMARY == 20
MIN_CONTENT == 100
POINTS_PER_ARTICLE == 50
WORDS_PER_MINUTE == 200

\* the length rules with exclusive bounds
validateFormExclusive(f) ==
    IF Trim(f.title) = <<>> THEN "Title is required"
    ELSE IF Len(f.title) <= MIN_TITLE THEN "Title must be at least 10 characters"
    ELSE IF Trim(f.summary) = <<>> THEN "Summary is required"
    ELSE IF Len(f.summary) <= MIN_SUMMARY THEN "Summary must be at least 20 characters"
    ELSE IF Trim(f.content) = <<>> THEN "Content is required"
    ELSE IF Len(f.content) <= MIN_CONTENT THEN "Content must be at least 100 characters"
    ELSE IF Trim(f.imageUrl) = <<>> THEN "Image URL is required"
    ELSE IF ~MatchImageUrl(f.imageUrl) THEN "Please provide a valid image URL"
    ELSE ""

\* the rules in another order: content before title
validateFormContentFirst(f) ==
    IF Trim(f.content) = <<>> THEN "Content is required"
    ELSE IF Len(f.content) < MIN_CONTENT THEN "Content must be at least 100 characters"
    ELSE IF Trim(f.title) = <<>> THEN "Title is required"
    ELSE IF Len(f.title) < MIN_TITLE THEN "Title must be at least 10 characters"
    ELSE IF Trim(f.summary) = <<>> THEN "Summary is required"
    ELSE IF Len(f.summary) < MIN_SUMMARY THEN "Summary must be at least 20 characters"
    ELSE IF Trim(f.imageUrl) = <<>> THEN "Image URL is required"
    ELSE IF ~MatchImageUrl(f.imageUrl) THEN "Please provide a valid image URL"
    ELSE ""

\* validateForm: "" when the form is valid, else the message it passes to setError
validateForm(f) ==
    IF Trim(f.title) = <<>> THEN "Title is required"
    ELSE IF Len(f.title) < MIN_TITLE THEN "Title must be at least 10 characters"
    ELSE IF Trim(f.summary) = <<>> THEN "Summary is required"
    ELSE IF Len(f.summary) < MIN_SUMMARY THEN "Summary must be at least 20 characters"
    ELSE IF Trim(f.content) = <<>> THEN "Content is required"
    ELSE IF Len(f.content) < MIN_CONTENT THEN "Content must be at least 100 characters"
    ELSE IF Trim(f.imageUrl) = <<>> THEN "Image URL is required"
    ELSE IF ~MatchImageUrl(f.imageUrl) THEN "Please provide a valid image URL"
    ELSE ""

\* str.split(/\s+/).length : every maximal run of whitespace is one separator,
\* and n separators cut the string into n + 1 pieces (the empty string is one
\* empty piece)
WordCount(str) ==
    1 + Cardinality({i \in 1..Len(str) :
                        IsSpace(str[i]) /\ (i = 1 \/ ~IsSpace(str[i - 1]))})

\* the read time rounded down
calculateReadTimeFloor(text) ==
    LET wordCount == WordCount(Trim(text))
        minutes == wordCount \div WORDS_PER_MINUTE
    IN  IF minutes < 1 THEN 1 ELSE minutes

\* calculateReadTime
calculateReadTime(text) ==
    LET wordCount == WordCount(Trim(text))
        minutes == (wordCount + WORDS_PER_MINUTE - 1) \div WORDS_PER_MINUTE
    IN  IF minutes < 1 THEN 1 ELSE minutes

\* str.split(',')
RECURSIVE Split(_)
Split(str) ==
    IF \A i \in 1..Len(str) : str[i] # "," THEN <<str>>
    ELSE LET i == CHOOSE i \in 1..Len(str) :
                      str[i] = "," /\ \A j \in 1..(i - 1) : str[j] # ","
         IN  <<SubSeq(str, 1, i - 1)>> \o Split(SubSeq(str, i + 1, Len(str)))

\* the tags without the trim
tagsArrayUntrimmed(tags) ==
    SelectSeq(Split(tags), LAMBDA tag : Len(tag) > 0)

\* formData.tags.split(',').map(tag => tag.trim()).filter(tag => tag.length > 0)
tagsArray(tags) ==
    LET pieces == Split(tags)
        trimmed == [i \in 1..Len(pieces) |-> Trim(pieces[i])]
    IN  SelectSeq(trimmed, LAMBDA tag : Len(tag) > 0)

EmptyForm ==
    [title |-> <<>>, summary |-> <<>>, content |-> <<>>, imageUrl |-> <<>>,
     tags |-> <<>>]

\* the values the model types into the fields
TitleInputs == {<<>>, Rep(" ", MIN_TITLE), Rep("a", MIN_TITLE - 1), Rep("a", MIN_TITLE)}
SummaryInputs == {<<>>, Rep("a", MIN_SUMMARY - 1), Rep("a", MIN_SUMMARY)}
ContentInputs == {<<>>, Rep("a", MIN_CONTENT - 1), Rep("a", MIN_CONTENT)}
ImageInputs ==
    {<<>>,
     <<"h","t","t","p","s",":","/","/","x",".","p","n","g">>,
     <<"H","T","T","P",":","/","/","x",".","J","P","G">>,
     <<"f","t","p",":","/","/","x",".","p","n","g">>,
     <<"h","t","t","p","s",":","/","/","x",".","t","x","t">>,
     <<"h","t","t","p","s",":","/","/","x",".","p","n","g","?","v">>}
TagsInputs == {<<>>, <<"a", ",", " ", "b", ",", ",", " ", "c", " ">>}
FieldInputs ==
    [title |-> TitleInputs, summary |-> SummaryInputs, content |-> ContentInputs,
     imageUrl |-> ImageInputs, tags |-> TagsInputs]

NoUser == [id |-> 0]
Undefined == -1

\* handleClose runs the model counts for one acknowledged submission
MaxCloses == 2

\* how a create-request can end: the backend's answer, or fetch throwing
Responses ==
    {[kind |-> "ok", message |-> ""],
     [kind |-> "rejected", message |-> "new row violates row-level security policy"],
     [kind |-> "rejected", message |-> ""],
     [kind |-> "threw", message |-> "Failed to fetch"],
     [kind |-> "threw", message |-> ""]}

\* handleChange: one field takes a new value and the error is cleared
handleChange(name, value) ==
    /\ isOpen /\ ~success /\ ~isSubmitting
    /\ formData' = [formData EXCEPT ![name] = value]
    /\ error' = ""
    /\ UNCHANGED <<isOpen, isSubmitting, success, user, persistedUser, configured,
                   inFlight, timers, requestsSent, acked, pointsAwarded, lastSubmit,
                   onSuccessCalls, ackCloses>>

\* the body of the create-request
newArticle(f, u) ==
    [title |-> Trim(f.title), summary |-> Trim(f.summary), content |-> Trim(f.content),
     image_url |-> Trim(f.imageUrl), author_id |-> u.id, tags |-> tagsArray(f.tags),
     is_premium |-> FALSE, read_time |-> calculateReadTime(f.content)]

\* how handleSubmit ends before it awaits anything
SubmitOutcome(f) ==
    IF user = NoUser THEN "unauthenticated"
    ELSE IF validateForm(f) # "" THEN "invalid"
    ELSE IF ~configured THEN "unconfigured"
    ELSE "sent"

\* a submit button that is never disabled
SubmitAlwaysEnabled == TRUE

\* the submit button, disabled={isSubmitting}: the form's submit event comes
\* from this button (the text inputs are disabled together with it)
SubmitEnabled == ~isSubmitting

\* handleSubmit up to its await: the form's submit event. The handler itself
\* does not look at isSubmitting.
Submit ==
    /\ isOpen /\ ~success /\ SubmitEnabled
    /\ requestsSent < MaxRequests
    /\ LET outcome == SubmitOutcome(formData)
       IN  /\ lastSubmit' = outcome
           /\ error' = CASE outcome = "unauthenticated" -> "You must be logged in to add news"
                         [] outcome = "invalid" -> validateForm(formData)
                         [] outcome = "unconfigured" -> "Database configuration not found"
                         [] outcome = "sent" -> ""
           /\ isSubmitting' = (outcome = "sent")
           /\ inFlight' = IF outcome = "sent"
                          THEN Append(inFlight, [article |-> newArticle(formData, user),
                                                 user |-> user])
                          ELSE inFlight
           /\ requestsSent' = IF outcome = "sent" THEN requestsSent + 1 ELSE requestsSent
    /\ UNCHANGED <<isOpen, formData, success, user, persistedUser, configured, timers,
                   acked, pointsAwarded, onSuccessCalls, ackCloses>>

\* AuthContext.addCamblissPoints(amount, reason): credits the signed-in user,
\* in the context and in the persisted profile
addCamblissPoints(u, amount) == [u EXCEPT !.camblissPoints = @ + amount]

\* the profile handleSubmit persists: { ...user, publishedStories + 1 }, from
\* the user object of the render that submitted
updatedUser(u) == [u EXCEPT !.publishedStories = @ + 1]

\* the catch block without its fallback
CaughtMessageNoFallback(message) == message

\* what the catch block shows for an error with the given message
CaughtMessage(message) ==
    IF message # "" THEN message ELSE "Failed to publish article. Please try again."
\* new Error(errorData.message || 'Failed to publish article')
RejectedMessage(message) ==
    IF message # "" THEN message ELSE "Failed to publish article"

\* the outstanding requests without the i-th, whose response has arrived
Answered(i) == SubSeq(inFlight, 1, i - 1) \o SubSeq(inFlight, i + 1, Len(inFlight))

\* handleSubmit after its await, on an acknowledged request
ResponseOk ==
    \E i \in DOMAIN inFlight :
        /\ pointsAwarded' = pointsAwarded + POINTS_PER_ARTICLE
        /\ user' = addCamblissPoints(user, POINTS_PER_ARTICLE)
        /\ persistedUser' =
              IF inFlight[i].user.publishedStories # Undefined
              THEN updatedUser(inFlight[i].user)
              ELSE addCamblissPoints(persistedUser, POINTS_PER_ARTICLE)
        /\ success' = TRUE
        /\ timers' = timers + 1
        /\ isSubmitting' = FALSE
        /\ inFlight' = Answered(i)
        /\ acked' = acked + 1
        /\ ackCloses' = 0
        /\ lastSubmit' = "acknowledged"
        /\ UNCHANGED <<isOpen, formData, error, configured, requestsSent, onSuccessCalls>>

\* handleSubmit after its await, on a rejected request or a thrown fetch
ResponseFailed(r) ==
    \E i \in DOMAIN inFlight :
        /\ r.kind # "ok"
        /\ error' = IF r.kind = "rejected" THEN CaughtMessage(RejectedMessage(r.message))
                                           ELSE CaughtMessage(r.message)
        /\ isSubmitting' = FALSE
        /\ inFlight' = Answered(i)
        /\ lastSubmit' = r.kind
        /\ UNCHANGED <<isOpen, formData, success, user, persistedUser, configured, timers,
                       requestsSent, acked, pointsAwarded, onSuccessCalls, ackCloses>>

\* handleClose: the form, the error and the success flag reset; onClose()
\* lets the parent hide the modal. A run counts for the latest acknowledged
\* submission while a completion of an acknowledged submission is pending.
handleClose ==
    /\ formData' = EmptyForm
    /\ error' = ""
    /\ success' = FALSE
    /\ isOpen' = FALSE
    /\ ackCloses' = IF timers > 0 /\ ackCloses < MaxCloses THEN ackCloses + 1
                    ELSE ackCloses

\* the close and cancel buttons
CloseButton ==
    /\ isOpen /\ ~isSubmitting
    /\ handleClose
    /\ UNCHANGED <<isSubmitting, user, persistedUser, configured, inFlight, timers,
                   requestsSent, acked, pointsAwarded, lastSubmit, onSuccessCalls>>

\* the setTimeout callback of an acknowledged submission: onSuccess(), handleClose()
TimerFires ==
    /\ timers > 0
    /\ timers' = timers - 1
    /\ onSuccessCalls' = onSuccessCalls + 1
    /\ handleClose
    /\ UNCHANGED <<isSubmitting, user, persistedUser, configured, inFlight,
                   requestsSent, acked, pointsAwarded, lastSubmit>>

\* the parent shows the modal again
Reopen ==
    /\ ~isOpen
    /\ isOpen' = TRUE
    /\ UNCHANGED <<formData, isSubmitting, error, success, user, persistedUser,
                   configured, inFlight, timers, requestsSent, acked, pointsAwarded,
                   lastSubmit, onSuccessCalls, ackCloses>>

(***************************************************************************)
(* The text helpers of handleSubmit, applied to one input                  *)
(***************************************************************************)

\* the longest input enumerated character by character
MaxTextLen == 4

TextAlphabet == {"a", ",", " "}

\* every string over the alphabet up to the longest length
ShortTexts == UNION {[1..n -> TextAlphabet] : n \in 0..MaxTextLen}

\* n words "a", one separator between two of them
Words(n, sep) ==
    IF n = 0 THEN <<>>
    ELSE [i \in 1..(2 * n - 1) |-> IF i % 2 = 1 THEN "a" ELSE sep]

\* word counts around the multiples of the reading speed
WordCounts == {1, WORDS_PER_MINUTE - 1, WORDS_PER_MINUTE, WORDS_PER_MINUTE + 1,
               2 * WORDS_PER_MINUTE - 1, 2 * WORDS_PER_MINUTE, 2 * WORDS_PER_MINUTE + 1}

\* long texts: words separated by blanks, tabs or newlines, with and without
\* whitespace around them
LongTexts ==
    {pre \o Words(n, sep) \o post :
        n \in WordCounts, sep \in {" ", "\n"},
        pre \in {<<>>, <<" ", "\t">>}, post \in {<<>>, <<"\n">>}}

TagsExample == <<"a", ",", " ", "b", ",", ",", " ", "c", " ">>

TextInputs == ShortTexts \cup LongTexts \cup {TagsExample}

\* const readTime = calculateReadTime(formData.content)
ApplyReadTime ==
    /\ applied = "none"
    /\ applied' = "readTime"
    /\ readTime' = calculateReadTime(textIn)
    /\ UNCHANGED <<textIn, tagList>>

\* const tagsArray = formData.tags.split(',').map(...).filter(...)
ApplyTags ==
    /\ applied = "none"
    /\ applied' = "tags"
    /\ tagList' = tagsArray(textIn)
    /\ UNCHANGED <<textIn, readTime>>

(***************************************************************************)
(* The user_articles table behind its row-level policies                   *)
(***************************************************************************)

\* authenticated identities
NumIdentities == 2

\* rows the table can hold
MaxRows == 2

\* SQL NULL: auth.uid() of a caller that is not signed in, a row without author_id
NullId == 0

\* who can send a statement: the anon role, or the authenticated role with a uid
Callers ==
    {[role |-> "anon", uid |-> NullId]}
        \cup {[role |-> "authenticated", uid |-> u] : u \in 1..NumIdentities}

\* author_id text, nullable
AuthorIds == {NullId} \cup 1..NumIdentities

NoRow == [present |-> FALSE, author_id |-> NullId]
Row(a) == [present |-> TRUE, author_id |-> a]

\* a = b in a policy: NULL on either side is not true
SqlEq(a, b) == a # NullId /\ b # NullId /\ a = b

\* FOR SELECT USING (true), for every role
SelectAllowed(caller, row) == TRUE

\* FOR INSERT TO authenticated WITH CHECK (true); no policy for other roles
InsertAllowed(caller, new) == caller.role = "authenticated" /\ TRUE

\* FOR UPDATE TO authenticated USING (auth.uid()::text = author_id)
UpdateUsing(caller, row) ==
    caller.role = "authenticated" /\ SqlEq(caller.uid, row.author_id)

\* an update policy whose new row is not checked
UpdateCheckAnyRow(caller, new) == caller.role = "authenticated"

\* ... WITH CHECK (auth.uid()::text = author_id)
UpdateCheck(caller, new) ==
    caller.role = "authenticated" /\ SqlEq(caller.uid, new.author_id)

\* FOR DELETE TO authenticated USING (auth.uid()::text = author_id)
DeleteUsing(caller, row) ==
    caller.role = "authenticated" /\ SqlEq(caller.uid, row.author_id)

Access(op, caller, id, before, after, done, seen) ==
    [op |-> op, caller |-> caller, id |-> id, before |-> before, after |-> after,
     done |-> done, seen |-> seen]

\* SELECT * FROM user_articles: the rows the policy lets the caller see
SelectRows(caller) ==
    /\ lastAccess' = Access("select", caller, 0, NoRow, NoRow, TRUE,
                            {i \in DOMAIN rows :
                                rows[i].present /\ SelectAllowed(caller, rows[i])})
    /\ UNCHANGED rows

\* INSERT: refused unless a policy of the caller's role passes the new row
InsertRow(caller, a) ==
    \E i \in DOMAIN rows :
        /\ ~rows[i].present
        /\ \A j \in 1..(i - 1) : rows[j].present
        /\ LET done == InsertAllowed(caller, Row(a))
           IN  /\ rows' = IF done THEN [rows EXCEPT ![i] = Row(a)] ELSE rows
               /\ lastAccess' = Access("insert", caller, i, NoRow, Row(a), done, {})

\* UPDATE ... SET author_id = a WHERE id = i: the row is touched only if the
\* caller can see it and USING passes; the statement fails if the new row
\* does not pass WITH CHECK
UpdateRow(caller, i, a) ==
    /\ rows[i].present
    /\ LET done == /\ SelectAllowed(caller, rows[i])
                   /\ UpdateUsing(caller, rows[i])
                   /\ UpdateCheck(caller, Row(a))
       IN  /\ rows' = IF done THEN [rows EXCEPT ![i] = Row(a)] ELSE rows
           /\ lastAccess' = Access("update", caller, i, rows[i], Row(a), done, {})

\* DELETE ... WHERE id = i
DeleteRow(caller, i) ==
    /\ rows[i].present
    /\ LET done == SelectAllowed(caller, rows[i]) /\ DeleteUsing(caller, rows[i])
       IN  /\ rows' = IF done THEN [rows EXCEPT ![i] = NoRow] ELSE rows
           /\ lastAccess' = Access("delete", caller, i, rows[i], NoRow, done, {})

(***************************************************************************)
(* Specifications                                                          *)
(***************************************************************************)

\* the table empty and no statement sent
InitRlsVars ==
    /\ rows = [i \in 1..MaxRows |-> NoRow]
    /\ lastAccess = Access("none", [role |-> "anon", uid |-> NullId], 0, NoRow, NoRow,
                           FALSE, {})

\* no helper applied, to the empty input
InitTextVars ==
    /\ textIn = <<>>
    /\ applied = "none"
    /\ readTime = 0
    /\ tagList = <<>>

\* the modal closed and untouched, nobody signed in
InitModalIdle ==
    /\ isOpen = FALSE
    /\ formData = EmptyForm
    /\ isSubmitting = FALSE
    /\ error = ""
    /\ success = FALSE
    /\ user = NoUser
    /\ persistedUser = NoUser
    /\ configured = TRUE
    /\ inFlight = <<>>
    /\ timers = 0
    /\ requestsSent = 0
    /\ acked = 0
    /\ pointsAwarded = 0
    /\ lastSubmit = "none"
    /\ onSuccessCalls = 0
    /\ ackCloses = 0

InitPlayerVars ==
    /\ episode = NoEpisode
    /\ isPlaying = FALSE
    /\ currentTime = 0
    /\ showUpgradePrompt = FALSE
    /\ audio = NoAudio
    /\ listeners = NoListeners
    /\ cleanup = "none"
    /\ lastOp = "mount"

\* the premium hook from before its first effect, in any environment
InitPremium ==
    /\ subscriptionIsPremium \in BOOLEAN
    /\ localFlag \in FlagValues
    /\ isPremium = FALSE
    /\ hookMounted = FALSE
    /\ effectSub = FALSE
    /\ storagePending = 0
    /\ InitPlayerVars
    /\ InitModalIdle
    /\ InitRlsVars
    /\ InitTextVars

NextPremium ==
    \/ MountPremium /\ UNCHANGED <<playerVars, modalVars, rlsVars, textVars>>
    \/ SubscriptionChanged /\ UNCHANGED <<playerVars, modalVars, rlsVars, textVars>>
    \/ RunPremiumEffect /\ UNCHANGED <<playerVars, modalVars, rlsVars, textVars>>
    \/ \E v \in FlagValues : StorageWriteOtherTab(v) /\ UNCHANGED <<playerVars, modalVars, rlsVars, textVars>>
    \/ DeliverStorage /\ UNCHANGED <<playerVars, modalVars, rlsVars, textVars>>
    \/ \E v \in FlagValues : LocalWriteAndNotify(v) /\ UNCHANGED <<playerVars, modalVars, rlsVars, textVars>>

SpecPremium == InitPremium /\ [][NextPremium]_vars

\* the page after mount: the hook has resolved, no episode is selected
InitPlayer ==
    /\ subscriptionIsPremium \in BOOLEAN
    /\ localFlag = NoFlag
    /\ isPremium = checkPremium(subscriptionIsPremium, localFlag)
    /\ hookMounted = TRUE
    /\ effectSub = subscriptionIsPremium
    /\ storagePending = 0
    /\ InitPlayerVars
    /\ InitModalIdle
    /\ InitRlsVars
    /\ InitTextVars

\* the operations of the player alone
NextFreePlayer ==
    \/ \E ep \in Episodes : PlayEpisode(ep)
    \/ ClosePlayer
    \/ Toggle
    \/ \E pct \in SeekPercents : Seek(pct)
    \/ Tick

NextPlayer ==
    \/ NextFreePlayer
    \/ SubscriptionChanged /\ UNCHANGED <<playerVars, modalVars, rlsVars, textVars>>
    \/ RunPremiumEffect /\ UNCHANGED <<playerVars, modalVars, rlsVars, textVars>>

SpecPlayer == InitPlayer /\ [][NextPlayer]_vars

\* the player of a user who is not premium and does not become premium
InitFreePlayer == InitPlayer /\ ~subscriptionIsPremium

SpecFreePlayer == InitFreePlayer /\ [][NextFreePlayer]_vars

\* the signed-in users the model starts with: with and without a
\* publishedStories field
Users ==
    {[id |-> 1, publishedStories |-> n, camblissPoints |-> 0] : n \in {Undefined, 0}}

\* the modal just opened, in any environment
InitModal ==
    /\ isOpen = TRUE
    /\ formData = EmptyForm
    /\ isSubmitting = FALSE
    /\ error = ""
    /\ success = FALSE
    /\ user \in Users \cup {NoUser}
    /\ persistedUser = user
    /\ configured \in BOOLEAN
    /\ inFlight = <<>>
    /\ timers = 0
    /\ requestsSent = 0
    /\ acked = 0
    /\ pointsAwarded = 0
    /\ lastSubmit = "none"
    /\ onSuccessCalls = 0
    /\ ackCloses = 0
    /\ subscriptionIsPremium = FALSE
    /\ localFlag = NoFlag
    /\ isPremium = FALSE
    /\ hookMounted = TRUE
    /\ effectSub = FALSE
    /\ storagePending = 0
    /\ InitPlayerVars
    /\ InitRlsVars
    /\ InitTextVars

NextModal ==
    \/ \E name \in DOMAIN FieldInputs : \E value \in FieldInputs[name] :
          handleChange(name, value) /\ UNCHANGED <<premiumVars, playerVars, rlsVars, textVars>>
    \/ Submit /\ UNCHANGED <<premiumVars, playerVars, rlsVars, textVars>>
    \/ ResponseOk /\ UNCHANGED <<premiumVars, playerVars, rlsVars, textVars>>
    \/ \E r \in Responses : ResponseFailed(r) /\ UNCHANGED <<premiumVars, playerVars, rlsVars, textVars>>
    \/ CloseButton /\ UNCHANGED <<premiumVars, playerVars, rlsVars, textVars>>
    \/ TimerFires /\ UNCHANGED <<premiumVars, playerVars, rlsVars, textVars>>
    \/ Reopen /\ UNCHANGED <<premiumVars, playerVars, rlsVars, textVars>>

SpecModal == InitModal /\ [][NextModal]_vars

\* the rest of the client at rest
InitClientIdle ==
    /\ subscriptionIsPremium = FALSE
    /\ localFlag = NoFlag
    /\ isPremium = FALSE
    /\ hookMounted = FALSE
    /\ effectSub = FALSE
    /\ storagePending = 0
    /\ InitPlayerVars
    /\ InitModalIdle

\* one input, no helper applied yet
InitText ==
    /\ textIn \in TextInputs
    /\ applied = "none"
    /\ readTime = 0
    /\ tagList = <<>>
    /\ InitClientIdle
    /\ InitRlsVars

NextText ==
    \/ ApplyReadTime /\ UNCHANGED <<premiumVars, playerVars, modalVars, rlsVars>>
    \/ ApplyTags /\ UNCHANGED <<premiumVars, playerVars, modalVars, rlsVars>>

SpecText == InitText /\ [][NextText]_vars

\* the table after the migration: empty
InitRls == InitRlsVars /\ InitClientIdle /\ InitTextVars

NextRls ==
    \/ \E c \in Callers : SelectRows(c) /\ UNCHANGED <<premiumVars, playerVars, modalVars, textVars>>
    \/ \E c \in Callers : \E a \in AuthorIds :
          InsertRow(c, a) /\ UNCHANGED <<premiumVars, playerVars, modalVars, textVars>>
    \/ \E c \in Callers : \E i \in 1..MaxRows : \E a \in AuthorIds :
          UpdateRow(c, i, a) /\ UNCHANGED <<premiumVars, playerVars, modalVars, textVars>>
    \/ \E c \in Callers : \E i \in 1..MaxRows :
          DeleteRow(c, i) /\ UNCHANGED <<premiumVars, playerVars, modalVars, textVars>>

SpecRls == InitRls /\ [][NextRls]_vars

(***************************************************************************)
(* Properties of the media playback controller and the premium resolver    *)
(***************************************************************************)

\* C1: while isPremium stays false, the playback position never exceeds 60
\* seconds, and whenever the position has reached 60 the session is paused
\* and the upgrade prompt is set; in every session of the player.
C1_PreviewLimitHolds ==
    /\ audio.time <= FREE_LIMIT
    /\ currentTime <= FREE_LIMIT
    /\ audio.time >= FREE_LIMIT => audio.paused /\ ~isPlaying /\ showUpgradePrompt

\* C2: while isPremium is true, no time update or seek forces a pause, and no
\* time update, toggle or seek sets the upgrade prompt, also when isPremium
\* became true after the episode was selected.
C2_PremiumNeverLimited ==
    [][isPremium =>
          /\ showUpgradePrompt' => showUpgradePrompt
          /\ (Tick \/ \E pct \in SeekPercents : Seek(pct))
                /\ ~audio.paused /\ audio'.paused => AtEnd(audio')]_vars

\* C3: once the hook has mounted and nothing is left to handle (no queued
\* storage event, no scheduled effect), isPremium is true exactly if the
\* subscription signal is true or the persisted flag is the string "true".
C3_PremiumIffSignalOrFlag ==
    (hookMounted /\ storagePending = 0 /\ effectSub = subscriptionIsPremium)
        => (isPremium <=> (subscriptionIsPremium \/ localFlag = "true"))

\* C3 witness: every notification handled, the flag is "TRUE" and the user is
\* not premium
C3_Witness ==
    /\ hookMounted /\ storagePending = 0 /\ effectSub = subscriptionIsPremium
    /\ localFlag = "TRUE" /\ ~subscriptionIsPremium /\ ~isPremium

\* C4: selecting an episode while another session is active leaves one
\* session, on the new episode, playing from position zero, with the displayed
\* position zero and the upgrade prompt cleared.
C4_SupersedeStartsFresh ==
    [][\A ep \in Episodes :
          (episode # NoEpisode /\ PlayEpisode(ep)) =>
              /\ episode' = ep
              /\ audio'.src = ep.id /\ audio'.time = 0 /\ ~audio'.paused
              /\ isPlaying'
              /\ currentTime' = 0
              /\ ~showUpgradePrompt']_vars

\* C5: togglePlayback changes nothing without an active episode; for a user
\* who is not premium at a position of at least 60 it sets the upgrade prompt
\* and leaves the session not playing; otherwise it flips isPlaying.
C5_ToggleGuardedByLimit ==
    [][Toggle =>
          IF episode = NoEpisode
          THEN UNCHANGED <<isPlaying, currentTime, showUpgradePrompt, audio>>
          ELSE IF ~isPremium /\ currentTime >= FREE_LIMIT
               THEN showUpgradePrompt' /\ ~isPlaying' /\ audio'.paused
               ELSE isPlaying' = ~isPlaying]_vars

\* C6: an accepted seek to fraction pct/100 puts the audio position at that
\* fraction of the full duration for a premium user and of 60 seconds
\* otherwise (50% of a 754-second episode gives 30), never above 60 for a
\* user who is not premium; a rejected seek (no episode, or not premium with
\* the displayed position at the limit) changes neither position nor play state.
C6_SeekMapsFraction ==
    [][\A pct \in SeekPercents :
          Seek(pct) =>
              IF episode = NoEpisode \/ (~isPremium /\ currentTime >= FREE_LIMIT)
              THEN UNCHANGED <<audio, currentTime, isPlaying, showUpgradePrompt>>
              ELSE /\ isPremium => 100 * audio'.time = pct * episode.duration
                   /\ ~isPremium => 100 * audio'.time = pct * FREE_LIMIT
                   /\ ~isPremium => audio'.time <= FREE_LIMIT
                   /\ (~isPremium /\ pct = 50 /\ episode.duration = 754)
                          => audio'.time = 30]_vars

\* C6 witness: a user who is not premium has just sought to the middle of the
\* bar on a 754-second episode
C6_Witness ==
    /\ lastOp = "seek" /\ ~isPremium /\ episode.duration = BaseDuration
    /\ audio.time = 30 /\ currentTime = 30

IsIdle(s) ==
    /\ ~s.isPlaying /\ s.currentTime = 0 /\ ~s.showUpgradePrompt
    /\ s.audio.paused /\ s.audio.time = 0

\* C7: after close() the player is idle: no episode, audio paused at position
\* zero, displayed position zero, prompt cleared, not playing; it stays so
\* while no episode is held, and the effect's null-episode branch alone
\* reaches the same state as close().
C7_CloseLeadsToIdle ==
    /\ lastOp = "close" => episode = NoEpisode
    /\ episode = NoEpisode => IsIdle(PlayerState)
    /\ EffectNoEpisode(PlayerState) = EffectNoEpisode(handleClosePlayer(PlayerState))
    /\ IsIdle(EffectNoEpisode(PlayerState))

\* C7 witness: a session that had shown content was closed
C7_Witness ==
    /\ lastOp = "close" /\ episode = NoEpisode /\ audio.created /\ audio.src # 0

(***************************************************************************)
(* Properties of the article submission workflow                           *)
(***************************************************************************)

TitleFails(f) == Trim(f.title) = <<>> \/ Len(f.title) < 10
SummaryFails(f) == Trim(f.summary) = <<>> \/ Len(f.summary) < 20
ContentFails(f) == Trim(f.content) = <<>> \/ Len(f.content) < 100
ImageFails(f) == Trim(f.imageUrl) = <<>> \/ ~MatchImageUrl(f.imageUrl)
FailsValidation(f) == TitleFails(f) \/ SummaryFails(f) \/ ContentFails(f) \/ ImageFails(f)

\* the messages of the first rule that fails, in the order title, summary,
\* content, image URL
FirstFailureMessages(f) ==
    IF TitleFails(f)
    THEN {"Title is required", "Title must be at least 10 characters"}
    ELSE IF SummaryFails(f)
    THEN {"Summary is required", "Summary must be at least 20 characters"}
    ELSE IF ContentFails(f)
    THEN {"Content is required", "Content must be at least 100 characters"}
    ELSE {"Image URL is required", "Please provide a valid image URL"}

\* C8: a submit by a signed-in user whose form fails validation sets the error
\* to the message of the first failing rule and does nothing else: no request
\* is sent, no points are awarded, profile, counter and form fields are unchanged.
C8_ValidationFailureOnlyReports ==
    [][(Submit /\ user # NoUser /\ FailsValidation(formData)) =>
          /\ error' \in FirstFailureMessages(formData)
          /\ UNCHANGED <<formData, inFlight, requestsSent, acked, pointsAwarded, user,
                         persistedUser, isSubmitting, success, timers, onSuccessCalls,
                         ackCloses>>]_vars

\* C8 witness: title valid, summary one character short, content empty: the
\* summary's message is the one reported
C8_Witness ==
    /\ lastSubmit = "invalid"
    /\ formData.title = Rep("a", 10) /\ formData.summary = Rep("a", 19)
    /\ formData.content = <<>>
    /\ error = "Summary must be at least 20 characters"
    /\ inFlight = <<>> /\ requestsSent = 0

\* C9: every acknowledged submission awards 50 points once and raises the
\* persisted published-article counter by one, so after k acknowledged
\* submissions 50k points were awarded and the persisted counter stands k above
\* the user's; other submissions award nothing and leave the counter.
C9_AckAwardsPointsAndCounter ==
    /\ pointsAwarded = 50 * acked
    /\ (user # NoUser /\ user.publishedStories # Undefined) =>
          persistedUser.publishedStories = user.publishedStories + acked

GenericFallbacks ==
    {"Failed to publish article", "Failed to publish article. Please try again."}

FailureKeepsFormAndEndsSubmit ==
    /\ formData' = formData
    /\ requestsSent' = requestsSent
    /\ inFlight' = <<>>
    /\ ~isSubmitting'
    /\ UNCHANGED <<acked, pointsAwarded, user, persistedUser, success>>

C11_OneRequestInFlight ==
    [][/\ Len(inFlight') <= 1
       /\ requestsSent' <= requestsSent + 1
       /\ inFlight # <<>> => requestsSent' = requestsSent]_vars

\* C11 witness: a second request is outstanding after the first was answered
\* and its completion is still pending
C11_Witness ==
    /\ Len(inFlight) = 1 /\ requestsSent = 2 /\ isSubmitting /\ timers = 1

TitleMessages == {"Title is required", "Title must be at least 10 characters"}
SummaryMessages == {"Summary is required", "Summary must be at least 20 characters"}
ContentMessages == {"Content is required", "Content must be at least 100 characters"}
ImageMessages == {"Image URL is required", "Please provide a valid image URL"}

\* a submit of a signed-in user that validation rejects
Rejected == lastSubmit' = "invalid" /\ error' # "" /\ requestsSent' = requestsSent

\* C12 as claimed: the length checks are inclusive lower bounds: a submission
\* with a title of 9 characters is rejected and one of 10 passes the title
\* check; content of 99 is rejected and of 100 passes the content check;
\* summary likewise at 20.
C12_LengthBoundsInclusive ==
    [][(Submit /\ user # NoUser) =>
          /\ Len(formData.title) = MIN_TITLE - 1 => Rejected
          /\ Len(formData.title) = MIN_TITLE => error' \notin TitleMessages
          /\ Len(formData.summary) = MIN_SUMMARY - 1 => Rejected
          /\ Len(formData.summary) = MIN_SUMMARY => error' \notin SummaryMessages
          /\ Len(formData.content) = MIN_CONTENT - 1 => Rejected
          /\ Len(formData.content) = MIN_CONTENT => error' \notin ContentMessages]_vars

\* C12 as amended: a field shorter than its minimum is rejected, and a field
\* of at least its minimum length that is not all whitespace passes that
\* field's check.
C12_LengthBoundsInclusiveNonBlank ==
    [][(Submit /\ user # NoUser) =>
          /\ Len(formData.title) < MIN_TITLE => Rejected
          /\ (Len(formData.title) >= MIN_TITLE /\ Trim(formData.title) # <<>>)
                => error' \notin TitleMessages
          /\ Len(formData.summary) < MIN_SUMMARY => Rejected
          /\ (Len(formData.summary) >= MIN_SUMMARY /\ Trim(formData.summary) # <<>>)
                => error' \notin SummaryMessages
          /\ Len(formData.content) < MIN_CONTENT => Rejected
          /\ (Len(formData.content) >= MIN_CONTENT /\ Trim(formData.content) # <<>>)
                => error' \notin ContentMessages]_vars

\* C12 witness: a form with every field exactly at its minimum was submitted
\* and passed validation
C12_Witness ==
    /\ lastSubmit = "sent" /\ isSubmitting
    /\ Len(formData.title) = MIN_TITLE /\ Len(formData.summary) = MIN_SUMMARY
    /\ Len(formData.content) = MIN_CONTENT

\* str ends in a dot and one of the image extensions, in any letter case
EndsInImageExtension(str) ==
    \E ext \in ImageExtensions :
        /\ Len(str) > Len(ext)
        /\ str[Len(str) - Len(ext)] = "."
        /\ WordAt(str, Len(str) - Len(ext) + 1, ext)

HasHttpScheme(str) ==
    \/ WordAt(str, 1, <<"h","t","t","p",":","/","/">>)
    \/ WordAt(str, 1, <<"h","t","t","p","s",":","/","/">>)

\* C13: a submission passes the image URL check only if the value is
\* non-empty, an http or https URL, and ends in one of jpg, jpeg, png, gif,
\* webp in any letter case; a URL with further characters after the
\* extension does not pass.
C13_ImageUrlEndsInExtension ==
    [][(Submit /\ user # NoUser /\ error' \notin ImageMessages
               /\ ~(TitleFails(formData) \/ SummaryFails(formData) \/ ContentFails(formData)))
          => /\ formData.imageUrl # <<>>
             /\ HasHttpScheme(formData.imageUrl)
             /\ EndsInImageExtension(formData.imageUrl)]_vars

(***************************************************************************)
(* Properties of the user_articles table                                   *)
(***************************************************************************)

\* C14: under the row-level policies, whoever the callers are and whatever
\* they send: a select shows every row to every caller; an insert takes
\* effect only for an authenticated caller; an update or a delete takes
\* effect only for the authenticated caller whose uid is the row's author_id,
\* and an update that takes effect leaves the row with the updater's uid as
\* author_id; a statement that does not take effect changes nothing.
C14_PoliciesRestrictWrites ==
    LET a == lastAccess
        present == {i \in DOMAIN rows : rows[i].present}
        authenticated == a.caller.role = "authenticated" /\ a.caller.uid # NullId
    IN  /\ a.op = "select" => a.done /\ a.seen = present
        /\ (a.op = "insert" /\ a.done) => authenticated
        /\ (a.op = "update" /\ a.done) =>
              /\ authenticated
              /\ a.before.author_id = a.caller.uid
              /\ a.after.author_id = a.caller.uid
              /\ rows[a.id] = a.after
        /\ (a.op = "delete" /\ a.done) =>
              /\ authenticated
              /\ a.before.author_id = a.caller.uid
        /\ (a.op \in {"update", "delete"} /\ ~a.done) => rows[a.id] = a.before
        /\ (a.op = "insert" /\ ~a.done) => ~rows[a.id].present

\* C14 witness: an author updated their own row while the table also holds a
\* row of somebody else
C14_Witness ==
    /\ lastAccess.op = "update" /\ lastAccess.done
    /\ \E i \in DOMAIN rows :
          rows[i].present /\ rows[i].author_id \notin {NullId, lastAccess.caller.uid}

(***************************************************************************)
(* Properties of the text helpers                                          *)
(***************************************************************************)

\* the whitespace-separated tokens of a text: the positions where one starts
Tokens(str) ==
    {i \in 1..Len(str) : ~IsSpace(str[i]) /\ (i = 1 \/ IsSpace(str[i - 1]))}

\* ceil(n / d) for n >= 0
CeilDiv(n, d) == IF n % d = 0 THEN n \div d ELSE (n \div d) + 1

\* C15: the read time is max(1, ceil(words / 200)), the words being the
\* whitespace-separated tokens of the trimmed text; it is never below 1, the
\* empty text included.
C15_ReadTimeIsCeilOfWords ==
    applied = "readTime" =>
        LET words == Cardinality(Tokens(textIn))
            expected == IF CeilDiv(words, 200) > 1 THEN CeilDiv(words, 200) ELSE 1
        IN  readTime = expected /\ readTime >= 1

\* C15 witness: a text of 400 words, padded with whitespace, gave 2
C15_Witness ==
    /\ applied = "readTime" /\ readTime = 2
    /\ Cardinality(Tokens(textIn)) = 400 /\ IsSpace(textIn[1])

\* the pieces of str between commas: piece k runs from after the (k-1)-th
\* comma to before the k-th
CommaAt(str) == {i \in 1..Len(str) : str[i] = ","}
PieceStart(str, k) ==
    IF k = 1 THEN 1
    ELSE 1 + CHOOSE i \in CommaAt(str) : Cardinality({j \in CommaAt(str) : j < i}) = k - 2
PieceEnd(str, k) ==
    IF k = Cardinality(CommaAt(str)) + 1 THEN Len(str)
    ELSE (CHOOSE i \in CommaAt(str) : Cardinality({j \in CommaAt(str) : j < i}) = k - 1) - 1
\* the piece without the whitespace around it
Core(str, k) ==
    LET inked == {i \in PieceStart(str, k)..PieceEnd(str, k) : ~IsSpace(str[i])}
    IN  IF inked = {} THEN <<>>
        ELSE LET first == CHOOSE i \in inked : \A j \in inked : i <= j
                 last == CHOOSE i \in inked : \A j \in inked : i >= j
             IN  SubSeq(str, first, last)
\* the numbers of the pieces that are not blank, and the n-th of them
Inked(str) == {k \in 1..(Cardinality(CommaAt(str)) + 1) : Core(str, k) # <<>>}
NthInked(str, n) ==
    CHOOSE k \in Inked(str) : Cardinality({j \in Inked(str) : j < k}) = n - 1

\* C16: the tag list is the comma-separated pieces of the input, each trimmed,
\* the empty ones dropped, in their order: no tag is empty or has whitespace
\* at either end, and an input that is empty or only separators gives the
\* empty list.
C16_TagsTrimmedNonEmptyInOrder ==
    applied = "tags" =>
        /\ Len(tagList) = Cardinality(Inked(textIn))
        /\ \A n \in 1..Len(tagList) :
              /\ tagList[n] = Core(textIn, NthInked(textIn, n))
              /\ tagList[n] # <<>>
              /\ ~IsSpace(tagList[n][1]) /\ ~IsSpace(tagList[n][Len(tagList[n])])
        /\ (\A i \in 1..Len(textIn) : textIn[i] = "," \/ IsSpace(textIn[i]))
              => tagList = <<>>
        /\ textIn = TagsExample => tagList = << <<"a">>, <<"b">>, <<"c">> >>

\* C16 witness: "a, b,, c " was parsed
C16_Witness ==
    /\ applied = "tags" /\ textIn = TagsExample /\ Len(tagList) = 3

(***************************************************************************)
(* Further properties of the player and of the submission workflow         *)
(***************************************************************************)

\* C17: whenever the player holds an episode, its timeupdate and ended
\* handlers are registered on the audio element, after any sequence of
\* selections, supersedes and closes.
C17_HandlersRegisteredWhileActive ==
    episode # NoEpisode => audio.created /\ listeners.attached

\* C18: whenever the upgrade prompt is showing, isPremium is false, the
\* session is not playing and the position is at least 60 seconds.
C18_PromptOnlyAtLimitForFreeUser ==
    showUpgradePrompt =>
        /\ ~isPremium
        /\ ~isPlaying /\ audio.paused
        /\ audio.time >= 60

\* C19: for each acknowledged submission onSuccess is called once, and
\* handleClose (the form reset and onClose) runs once, whatever the user does
\* before the deferred completion runs.
C19_CompletionRunsOnce ==
    /\ onSuccessCalls + timers = acked
    /\ ackCloses <= 1
    /\ (acked > 0 /\ timers = 0) => ackCloses = 1

====
